---- MODULE Spec2Model ----
(***************************************************************************)
(* Event scoring, suspicion tracking and surprise-viva orchestration of    *)
(* the exam proctoring backend (sensai-ai/src/api/websockets.py and        *)
(* sensai-ai/src/api/utils/event_scoring.py), and the analytics endpoint   *)
(* of sensai-ai/src/api/routes/exam.py.                                    *)
(*                                                                         *)
(* Confidence values are floats in the source.  Every constant of the rule *)
(* table is a multiple of 0.01, so the model keeps confidences as integer  *)
(* hundredths (0.8 is 80) and a weighted score confidence * priority as    *)
(* integer hundredths as well (the 3.0 threshold is 300).                  *)
(*                                                                         *)
(* All coroutines of the server run on one asyncio event loop: an action   *)
(* of the model is the code that runs between two suspension points.       *)
(***************************************************************************)
EXTENDS Integers, Sequences, FiniteSets, TLC

\* ------------------------------------------------------------------------
\* Bounds of the model
\* ------------------------------------------------------------------------
MaxEvents == 3
MaxSharedEvents == 2
MaxTasks == 2
MaxQuestions == 1
MaxHistory == 5

\* rows of one session in the exam_events table
MaxLog == 6

\* exam_event messages of the session whose trigger query fails repeatedly
MaxEvidenceEvents == 6

\* ------------------------------------------------------------------------
\* Helpers
\* ------------------------------------------------------------------------
Min(a, b) == IF a <= b THEN a ELSE b

Max(a, b) == IF a >= b THEN a ELSE b

\* dict.get(key, default)
Get(d, k, default) == IF k \in DOMAIN d THEN d[k] ELSE default

\* the empty payload {}
EmptyData == [k \in {} |-> 0]

\* ------------------------------------------------------------------------
\* EventScorer: the rule table
\* ------------------------------------------------------------------------
HIGH_PRIORITY_EVENTS ==
    [clipboard_paste |-> 80, rapid_paste_burst |-> 95, keystroke_mismatch |-> 90,
     content_similarity |-> 85, tab_switch |-> 90, sudden_text_burst |-> 88,
     audio_assistance_detected |-> 80]

MEDIUM_PRIORITY_EVENTS ==
    [typing_pattern_anomaly |-> 70, wpm_tracking |-> 60, writing_style_drift |-> 65,
     mouse_movement |-> 60, face_count_violation |-> 75, face_detection |-> 70,
     window_focus |-> 50, keystroke_anomaly |-> 60]

LOW_PRIORITY_EVENTS ==
    [gaze_tracking |-> 40, video_start |-> 10, video_stop |-> 10, exam_started |-> 10,
     exam_submitted |-> 10, question_viewed |-> 10, answer_changed |-> 20,
     connection_established |-> 10]

UnknownBaseConfidence == 50

BasePriority(event_type) ==
    IF event_type \in DOMAIN HIGH_PRIORITY_EVENTS THEN 3
    ELSE IF event_type \in DOMAIN MEDIUM_PRIORITY_EVENTS THEN 2
    ELSE IF event_type \in DOMAIN LOW_PRIORITY_EVENTS THEN 1
    ELSE 2

BaseConfidence(event_type) ==
    IF event_type \in DOMAIN HIGH_PRIORITY_EVENTS THEN HIGH_PRIORITY_EVENTS[event_type]
    ELSE IF event_type \in DOMAIN MEDIUM_PRIORITY_EVENTS THEN MEDIUM_PRIORITY_EVENTS[event_type]
    ELSE IF event_type \in DOMAIN LOW_PRIORITY_EVENTS THEN LOW_PRIORITY_EVENTS[event_type]
    ELSE UnknownBaseConfidence

\* ------------------------------------------------------------------------
\* EventScorer._calculate_enhanced_confidence, one operator per branch.
\* Durations stay in milliseconds: x / 1000 > 30 is x > 30000.
\* ------------------------------------------------------------------------
ConfClipboardPaste(d, c) ==
    LET length == Get(d, "length", 0) IN
    IF length > 500 THEN Min(95, c + 10)
    ELSE IF length > 100 THEN Min(90, c + 5)
    ELSE c

ConfRapidPasteBurst(d, c) ==
    LET paste_count == Get(d, "paste_count", 1)
        time_window == Get(d, "time_window", 5000)
        c1 == IF paste_count >= 5 THEN Min(98, c + 3)
              ELSE IF paste_count >= 3 THEN Min(95, c + 2)
              ELSE c
    IN IF time_window <= 2000 THEN Min(98, c1 + 3) ELSE c1

ConfTypingPatternAnomaly(d, c) ==
    LET existing_confidence == Get(d, "confidence", 0)
        deviation_percentage == Get(d, "deviation_percentage", 0)
    IN IF existing_confidence > 0 THEN existing_confidence
       ELSE IF deviation_percentage > 50 THEN Min(90, c + 20)
       ELSE IF deviation_percentage > 30 THEN Min(80, c + 10)
       ELSE c

ConfContentSimilarity(d, c) ==
    LET similarity_score == Get(d, "similarity_score", 0) IN
    IF similarity_score > 0 THEN similarity_score ELSE c

ConfWritingStyleDrift(d, c) ==
    LET similarity_score == Get(d, "similarity_score", 100) IN
    Max(10, 100 - similarity_score)

ConfWpmTracking(d, c) ==
    LET wpm == Get(d, "wpm", 0)
        chars_typed == Get(d, "chars_typed", 0)
    IN IF wpm > 120 THEN Min(80, c + 30)
       ELSE IF wpm < 5 /\ chars_typed > 100 THEN Min(70, c + 20)
       ELSE c

ConfFaceCountViolation(d, c) ==
    LET face_count == Get(d, "face_count", 1)
        violation_duration == Get(d, "violation_duration", 0)
        c1 == IF face_count = 0 THEN Min(90, c + 15)
              ELSE IF face_count > 1 THEN Min(85, c + 10)
              ELSE c
    IN IF violation_duration > 30000 THEN Min(95, c1 + 10)
       ELSE IF violation_duration > 10000 THEN Min(90, c1 + 5)
       ELSE c1

ConfMouseMovement(d, c) ==
    LET pattern_type == Get(d, "pattern_type", "normal")
        velocity == Get(d, "velocity", 0)
        c1 == IF pattern_type = "suspicious" THEN Min(80, c + 20)
              ELSE IF pattern_type = "rapid" THEN Min(70, c + 10)
              ELSE c
    IN IF velocity > 100 THEN Min(80, c1 + 10) ELSE c1

ConfGazeTracking(d, c) ==
    LET looking_away == Get(d, "looking_away", FALSE)
        confidence_from_data == Get(d, "confidence", 50)
        duration_away == Get(d, "duration_away", 0)
        c1 == IF looking_away THEN Min(70, c + 30) ELSE c
        c2 == IF ~looking_away THEN c1
              ELSE IF duration_away > 10000 THEN Min(80, c1 + 10)
              ELSE IF duration_away > 5000 THEN Min(70, c1 + 5)
              ELSE c1
    IN IF confidence_from_data > 0 THEN Max(c2, confidence_from_data) ELSE c2

ConfTabSwitch(d, c) ==
    LET away_duration == Get(d, "away_duration", 0) IN
    IF away_duration > 30000 THEN Min(98, c + 8)
    ELSE IF away_duration > 10000 THEN Min(95, c + 5)
    ELSE IF away_duration > 5000 THEN Min(92, c + 2)
    ELSE c

\* suspicious_phrases is a list in the source, used only through len():
\* the payload carries its length.
ConfAudioAssistance(d, c) ==
    LET existing_confidence == Get(d, "confidence_score", 0)
        multiple_speakers == Get(d, "multiple_speakers", FALSE)
        suspicious_phrase_count == Get(d, "suspicious_phrases", 0)
        c1 == IF existing_confidence > 0 THEN existing_confidence ELSE c
        c2 == IF multiple_speakers THEN Min(98, c1 + 5) ELSE c1
    IN IF suspicious_phrase_count > 3 THEN Min(95, c2 + 8)
       ELSE IF suspicious_phrase_count > 1 THEN Min(92, c2 + 4)
       ELSE c2

\* the refinement with a fall-through that trusts an event-supplied confidence
Refined_generic_confidence(event_type, event_data, base_confidence) ==
    CASE event_type = "clipboard_paste" -> ConfClipboardPaste(event_data, base_confidence)
      [] event_type = "rapid_paste_burst" -> ConfRapidPasteBurst(event_data, base_confidence)
      [] event_type = "typing_pattern_anomaly" -> ConfTypingPatternAnomaly(event_data, base_confidence)
      [] event_type = "content_similarity" -> ConfContentSimilarity(event_data, base_confidence)
      [] event_type = "writing_style_drift" -> ConfWritingStyleDrift(event_data, base_confidence)
      [] event_type = "wpm_tracking" -> ConfWpmTracking(event_data, base_confidence)
      [] event_type = "face_count_violation" -> ConfFaceCountViolation(event_data, base_confidence)
      [] event_type = "mouse_movement" -> ConfMouseMovement(event_data, base_confidence)
      [] event_type = "gaze_tracking" -> ConfGazeTracking(event_data, base_confidence)
      [] event_type = "tab_switch" -> ConfTabSwitch(event_data, base_confidence)
      [] event_type = "audio_assistance_detected" -> ConfAudioAssistance(event_data, base_confidence)
      [] OTHER -> Get(event_data, "confidence", base_confidence)

Refined(event_type, event_data, base_confidence) ==
    CASE event_type = "clipboard_paste" -> ConfClipboardPaste(event_data, base_confidence)
      [] event_type = "rapid_paste_burst" -> ConfRapidPasteBurst(event_data, base_confidence)
      [] event_type = "typing_pattern_anomaly" -> ConfTypingPatternAnomaly(event_data, base_confidence)
      [] event_type = "content_similarity" -> ConfContentSimilarity(event_data, base_confidence)
      [] event_type = "writing_style_drift" -> ConfWritingStyleDrift(event_data, base_confidence)
      [] event_type = "wpm_tracking" -> ConfWpmTracking(event_data, base_confidence)
      [] event_type = "face_count_violation" -> ConfFaceCountViolation(event_data, base_confidence)
      [] event_type = "mouse_movement" -> ConfMouseMovement(event_data, base_confidence)
      [] event_type = "gaze_tracking" -> ConfGazeTracking(event_data, base_confidence)
      [] event_type = "tab_switch" -> ConfTabSwitch(event_data, base_confidence)
      [] event_type = "audio_assistance_detected" -> ConfAudioAssistance(event_data, base_confidence)
      [] OTHER -> base_confidence

\* calculate_enhanced_confidence that returns the refined value as it is
calculate_enhanced_confidence_unclamped(event_type, event_data, base_confidence) ==
    Refined(event_type, event_data, base_confidence)

\* the final clamp: max(0.0, min(1.0, confidence))
calculate_enhanced_confidence(event_type, event_data, base_confidence) ==
    Max(0, Min(100, Refined(event_type, event_data, base_confidence)))

\* should_flag_event that flags a gaze event on its confidence alone
should_flag_event_gaze_confidence(priority, confidence_score, event_type, event_data) ==
    IF priority = 3 THEN confidence_score > 60
    ELSE IF priority = 2 THEN confidence_score > 70
    ELSE IF priority = 1 THEN event_type = "gaze_tracking" /\ confidence_score > 60
    ELSE FALSE

should_flag_event(priority, confidence_score, event_type, event_data) ==
    IF priority = 3 THEN confidence_score > 60
    ELSE IF priority = 2 THEN confidence_score > 70
    ELSE IF priority = 1 THEN
        IF event_type = "gaze_tracking"
        THEN /\ Get(event_data, "looking_away", FALSE)
             /\ Get(event_data, "duration_away", 0) > 10000
             /\ confidence_score > 60
        ELSE FALSE
    ELSE FALSE

\* the 'description' entries of the three rule tables
DESCRIPTIONS ==
    [clipboard_paste |-> "Copy-paste activity detected",
     rapid_paste_burst |-> "Multiple paste operations in short time",
     keystroke_mismatch |-> "Text appears without corresponding keystrokes",
     content_similarity |-> "Text similarity to external sources",
     tab_switch |-> "User navigated away from exam",
     sudden_text_burst |-> "Large amount of text appeared suddenly",
     audio_assistance_detected |-> "Background assistance detected in audio",
     typing_pattern_anomaly |-> "Unusual typing rhythm detected",
     wpm_tracking |-> "Significant WPM changes",
     writing_style_drift |-> "Writing style inconsistency",
     mouse_movement |-> "Suspicious mouse movement patterns",
     face_count_violation |-> "Multiple or no faces detected",
     face_detection |-> "Face detection anomalies",
     window_focus |-> "Window focus changes",
     keystroke_anomaly |-> "Unusual keystroke patterns",
     gaze_tracking |-> "Gaze direction changes",
     video_start |-> "Video recording started",
     video_stop |-> "Video recording stopped",
     exam_started |-> "Exam session began",
     exam_submitted |-> "Exam was submitted",
     question_viewed |-> "Question navigation",
     answer_changed |-> "Answer modification",
     connection_established |-> "WebSocket connection"]

Description(event_type) ==
    IF event_type \in DOMAIN DESCRIPTIONS THEN DESCRIPTIONS[event_type]
    ELSE "Unknown event type: " \o event_type

calculate_event_score(event_type, event_data) ==
    LET priority == BasePriority(event_type)
        confidence_score ==
            calculate_enhanced_confidence(event_type, event_data, BaseConfidence(event_type))
    IN [priority |-> priority,
        confidence_score |-> confidence_score,
        is_flagged |-> should_flag_event(priority, confidence_score, event_type, event_data),
        description |-> Description(event_type)]

\* ------------------------------------------------------------------------
\* EventScorer.analyze_event_patterns.  Timestamps are milliseconds.
\* ------------------------------------------------------------------------
\* sorted(events, key=timestamp): the sort is stable, rows with equal
\* timestamps keep the order in which they were passed in
sorted_events_unsorted(events) == events

RECURSIVE sorted_events(_)
sorted_events(events) ==
    IF events = <<>> THEN <<>>
    ELSE LET e == events[Len(events)]
             s == sorted_events(SubSeq(events, 1, Len(events) - 1))
             k == Cardinality({i \in 1..Len(s) : s[i].timestamp <= e.timestamp})
         IN SubSeq(s, 1, k) \o <<e>> \o SubSeq(s, k + 1, Len(s))

IsPaste(e) == e.event_type \in {"clipboard_paste", "rapid_paste_burst"}

IsTabSwitch(e) == e.event_type = "tab_switch"

IsTyping(e) == e.event_type \in {"typing_pattern_anomaly", "wpm_tracking"}

IsFaceViolation(e) == e.event_type = "face_count_violation"

IsWpm(e) == e.event_type = "wpm_tracking"

Abs(x) == IF x < 0 THEN -x ELSE x

\* Pattern 1: the span between the first and the last paste event of the
\* history, (last - first) / 1000 / 60 < 10
frequent_paste_operations(sorted) ==
    LET paste_events == SelectSeq(sorted, IsPaste)
        time_span == paste_events[Len(paste_events)].timestamp - paste_events[1].timestamp
    IN IF Len(paste_events) >= 3 /\ time_span < 600000
       THEN <<[type |-> "frequent_paste_operations", severity |-> "High",
               events |-> Len(paste_events), time_span |-> time_span]>>
       ELSE <<>>

\* Pattern 2: one pattern for each tab switch followed by typing within 30 s
tab_switch_quick_typing(sorted) ==
    LET tab_switches == SelectSeq(sorted, IsTabSwitch)
        typing_events == SelectSeq(sorted, IsTyping)
        quick_typing(tab_time) ==
            {i \in 1..Len(typing_events) :
                /\ Abs(typing_events[i].timestamp - tab_time) < 30000
                /\ typing_events[i].timestamp > tab_time}
        Followed(tab_event) == quick_typing(tab_event.timestamp) # {}
        hits == SelectSeq(tab_switches, Followed)
    IN [i \in 1..Len(hits) |->
          [type |-> "tab_switch_quick_typing", severity |-> "High",
           tab_time |-> hits[i].timestamp,
           typing_events |-> Cardinality(quick_typing(hits[i].timestamp))]]

\* Pattern 3
frequent_face_violations(sorted) ==
    LET face_violations == SelectSeq(sorted, IsFaceViolation)
    IN IF Len(face_violations) > 5
       THEN <<[type |-> "frequent_face_violations", severity |-> "Medium",
               events |-> Len(face_violations)]>>
       ELSE <<>>

Warning(pattern) ==
    CASE pattern.type = "frequent_paste_operations" ->
            "Multiple paste operations detected in short time period"
      [] pattern.type = "tab_switch_quick_typing" ->
            "Suspicious typing pattern after navigating away"
      [] pattern.type = "frequent_face_violations" ->
            "Frequent face detection issues may indicate attempt to avoid monitoring"

\* Pattern 4 reads wmp_values, a name that is never bound (the list is
\* wpm_values): with 5 or more wpm_tracking events max(wmp_values) raises
\* NameError and the function returns nothing.
analyze_event_patterns(events) ==
    IF events = <<>>
    THEN [status |-> "returned", patterns |-> <<>>, warnings |-> <<>>]
    ELSE LET sorted == sorted_events(events)
             patterns == frequent_paste_operations(sorted)
                         \o tab_switch_quick_typing(sorted)
                         \o frequent_face_violations(sorted)
             wpm_events == SelectSeq(sorted, IsWpm)
         IN IF Len(wpm_events) >= 5
            THEN [status |-> "raised", error |-> "NameError"]
            ELSE [status |-> "returned", patterns |-> patterns,
                  warnings |-> [i \in 1..Len(patterns) |-> Warning(patterns[i])]]

\* ------------------------------------------------------------------------
\* The server: sessions, connections, telemetry events
\* ------------------------------------------------------------------------
Sessions == {"s1", "s2"}

Conns == {"c1", "c2"}

NoConn == "none"

\* telemetry events a client sends, by name
EventNames == {"paste", "face", "gaze", "video", "similar"}

Event(n) ==
    CASE n = "paste" -> [type |-> "clipboard_paste", data |-> EmptyData]
      [] n = "face" -> [type |-> "face_count_violation", data |-> EmptyData]
      [] n = "gaze" -> [type |-> "gaze_tracking",
                        data |-> [looking_away |-> TRUE, duration_away |-> 12000]]
      [] n = "video" -> [type |-> "video_start", data |-> EmptyData]
      [] n = "similar" -> [type |-> "content_similarity",
                           data |-> [similarity_score |-> 100]]

Scored(n) == calculate_event_score(Event(n).type, Event(n).data)

VARIABLES
    session_scores,      \* VivaSessionTracker.session_scores: session -> hundredths
    session_flags,       \* VivaSessionTracker.session_flags: session -> count
    viva_triggered,      \* VivaSessionTracker.viva_triggered
    viva_in_progress,    \* VivaSessionTracker.viva_in_progress
    active_connections,  \* ExamConnectionManager: session -> registered socket
    handler,             \* websocket_exam_session coroutine of each connection
    tasks,               \* runs of trigger_surprise_viva, in order of creation
    exam_events,         \* exam_events table: session -> event names, in insertion order
    viva_questions,      \* surprise_viva_questions table: session -> stored rows
    delivered,           \* surprise_viva messages written to a live socket, per session
    openai_api_key,      \* settings.openai_api_key is configured
    received,            \* number of exam_event messages read so far
    events_data,         \* score_exam_events: the raw event rows passed in
    scored_events,       \* score_exam_events: the rows as scored by the classifier
    analysis,            \* outcome of analyze_event_patterns in the last request
    analytics            \* get_exam_analytics: the last response of the endpoint

vars == <<session_scores, session_flags, viva_triggered, viva_in_progress,
          active_connections, handler, tasks, exam_events, viva_questions,
          delivered, openai_api_key, received,
          events_data, scored_events, analysis, analytics>>

scoring == <<events_data, scored_events, analysis, analytics>>

tracker == <<session_scores, session_flags, viva_triggered, viva_in_progress>>

\* ------------------------------------------------------------------------
\* VivaSessionTracker
\* ------------------------------------------------------------------------
viva_threshold == 300

flag_threshold == 3

\* the dict after d[k] = v
Put(d, k, v) == [x \in DOMAIN d \cup {k} |-> IF x = k THEN v ELSE d[x]]

\* add_event_score that counts the score of flagged events only
add_event_score_flagged_only(scores, flags, session_id, priority, confidence, is_flagged) ==
    LET scores0 == IF session_id \in DOMAIN scores THEN scores ELSE Put(scores, session_id, 0)
        flags0 == IF session_id \in DOMAIN scores THEN flags ELSE Put(flags, session_id, 0)
    IN [scores |-> IF is_flagged
                   THEN Put(scores0, session_id, scores0[session_id] + confidence * priority)
                   ELSE scores0,
        flags |-> IF is_flagged THEN Put(flags0, session_id, flags0[session_id] + 1)
                  ELSE flags0]

\* add_event_score that forgets the priority weight
add_event_score_unweighted(scores, flags, session_id, priority, confidence, is_flagged) ==
    LET scores0 == IF session_id \in DOMAIN scores THEN scores ELSE Put(scores, session_id, 0)
        flags0 == IF session_id \in DOMAIN scores THEN flags ELSE Put(flags, session_id, 0)
    IN [scores |-> Put(scores0, session_id, scores0[session_id] + confidence),
        flags |-> IF is_flagged THEN Put(flags0, session_id, flags0[session_id] + 1)
                  ELSE flags0]

\* add_event_score that creates the flag counter with the first flagged event
add_event_score_lazy_flags(scores, flags, session_id, priority, confidence, is_flagged) ==
    LET scores0 == IF session_id \in DOMAIN scores THEN scores ELSE Put(scores, session_id, 0)
    IN [scores |-> Put(scores0, session_id, scores0[session_id] + confidence * priority),
        flags |-> IF is_flagged THEN Put(flags, session_id, Get(flags, session_id, 0) + 1)
                  ELSE flags]

\* add_event_score: the new (session_scores, session_flags)
add_event_score(scores, flags, session_id, priority, confidence, is_flagged) ==
    LET scores0 == IF session_id \in DOMAIN scores THEN scores ELSE Put(scores, session_id, 0)
        flags0 == IF session_id \in DOMAIN scores THEN flags ELSE Put(flags, session_id, 0)
        weighted_score == confidence * priority
    IN [scores |-> Put(scores0, session_id, scores0[session_id] + weighted_score),
        flags |-> IF is_flagged THEN Put(flags0, session_id, flags0[session_id] + 1)
                  ELSE flags0]

\* should_trigger_viva that looks at the in-progress marker only
should_trigger_viva_retry(scores, flags, triggered, in_progress, session_id) ==
    IF session_id \in in_progress THEN FALSE
    ELSE Get(scores, session_id, 0) >= viva_threshold
         \/ Get(flags, session_id, 0) >= flag_threshold

\* should_trigger_viva with strict comparisons
should_trigger_viva_strict(scores, flags, triggered, in_progress, session_id) ==
    IF session_id \in triggered \/ session_id \in in_progress THEN FALSE
    ELSE Get(scores, session_id, 0) > viva_threshold
         \/ Get(flags, session_id, 0) > flag_threshold

should_trigger_viva(scores, flags, triggered, in_progress, session_id) ==
    IF session_id \in triggered \/ session_id \in in_progress THEN FALSE
    ELSE LET score == Get(scores, session_id, 0)
             flags_ == Get(flags, session_id, 0)
         IN score >= viva_threshold \/ flags_ >= flag_threshold

\* mark_viva_triggered that records the in-progress marker only
mark_viva_triggered_in_progress_only(triggered, in_progress, session_id) ==
    [triggered |-> triggered,
     in_progress |-> in_progress \cup {session_id}]

\* mark_viva_triggered: the new (viva_triggered, viva_in_progress)
mark_viva_triggered(triggered, in_progress, session_id) ==
    [triggered |-> triggered \cup {session_id},
     in_progress |-> in_progress \cup {session_id}]

\* mark_viva_completed that ends every viva in progress
mark_viva_completed_every(in_progress, session_id) ==
    IF session_id \in in_progress THEN {} ELSE in_progress

\* mark_viva_completed: the new viva_in_progress
mark_viva_completed(in_progress, session_id) == in_progress \ {session_id}

is_viva_in_progress(in_progress, session_id) == session_id \in in_progress

\* ------------------------------------------------------------------------
\* Initial state: a freshly started server process
\* ------------------------------------------------------------------------
InitServer ==
    /\ session_scores = [s \in {} |-> 0]
    /\ session_flags = [s \in {} |-> 0]
    /\ viva_triggered = {}
    /\ viva_in_progress = {}
    /\ active_connections = [s \in Sessions |-> NoConn]
    /\ handler = [c \in Conns |-> [pc |-> "init", session |-> "none", ev |-> "none",
                                    trigger |-> FALSE]]
    /\ tasks = <<>>
    /\ exam_events = [s \in Sessions |-> <<>>]
    /\ viva_questions = [s \in Sessions |-> 0]
    /\ delivered = [s \in Sessions |-> 0]
    /\ openai_api_key \in BOOLEAN
    /\ received = 0

\* no offline scoring request is made while the server is observed
Init ==
    /\ InitServer
    /\ events_data = <<>>
    /\ scored_events = <<>>
    /\ analysis = [status |-> "none"]
    /\ analytics = [status |-> "none"]

\* The OpenAI client of generate_surprise_viva_questions is the synchronous
\* one: while a run waits for the completion the event loop runs nothing else.
LoopBlocked == \E i \in DOMAIN tasks : tasks[i].pc = "generating"

\* asyncio.create_task puts the first step of the new task in the loop's ready
\* queue: it runs as soon as the running coroutine suspends, before any
\* coroutine that is resumed later.
Starting == \E i \in DOMAIN tasks : tasks[i].pc = "created"

\* a coroutine resumed after a suspension (database call, network wait)
Resumable == ~LoopBlocked /\ ~Starting

\* the handler of connection c goes on without suspension (a send on an open
\* socket, a receive with a message already queued)
Continues(c) ==
    /\ ~LoopBlocked
    /\ \A i \in DOMAIN tasks : tasks[i].pc = "created" => tasks[i].by = c

\* ------------------------------------------------------------------------
\* handle_exam_message, "exam_event" branch
\* ------------------------------------------------------------------------
Reverse(q) == [i \in 1..Len(q) |-> q[Len(q) + 1 - i]]

FirstN(q, n) == SubSeq(q, 1, Min(n, Len(q)))

LastN(q, n) == SubSeq(q, Max(1, Len(q) - n + 1), Len(q))

IsSuspicious(n) == Scored(n).is_flagged \/ Scored(n).confidence_score > 70

\* SELECT ... ORDER BY timestamp DESC LIMIT 10, then the rows that are flagged
\* or have confidence > 0.7, in the order of the result set
suspicious_events(log) == SelectSeq(FirstN(Reverse(log), 10), IsSuspicious)

TypesOf(q) == [i \in 1..Len(q) |-> Event(q[i]).type]

\* the handler's position, the event it is handling and what
\* should_trigger_viva returned for it
SetHandler(c, pc, ev, trigger) ==
    [handler EXCEPT ![c].pc = pc, ![c].ev = ev, ![c].trigger = trigger]

\* websocket_exam_session up to the receive loop
Connect(c, s) ==
    /\ Resumable
    /\ handler[c].pc = "init"
    /\ active_connections' = [active_connections EXCEPT ![s] = c]
    /\ handler' = [handler EXCEPT ![c].pc = "recv", ![c].session = s]
    /\ UNCHANGED <<tracker, tasks, exam_events, viva_questions, delivered,
                   openai_api_key, received, scoring>>

\* receive_text returns an exam_event message and save_exam_event is awaited
\* (it swallows a failed insert); then, without suspension, the event is scored,
\* added to the tracker and the trigger condition is checked
HandleEvent(c, n, cap) ==
    /\ Resumable
    /\ handler[c].pc = "recv"
    /\ received < cap
    /\ received' = received + 1
    /\ LET sid == handler[c].session
           sc == Scored(n)
           added == add_event_score(session_scores, session_flags, sid,
                                    sc.priority, sc.confidence_score, sc.is_flagged)
       IN /\ \/ exam_events' = [exam_events EXCEPT ![sid] = Append(@, n)]
             \/ exam_events' = exam_events
          /\ session_scores' = added.scores
          /\ session_flags' = added.flags
          /\ IF should_trigger_viva(added.scores, added.flags, viva_triggered,
                                    viva_in_progress, sid)
             THEN handler' = SetHandler(c, "fetch", n, TRUE)
             ELSE handler' = SetHandler(c, "ack", n, FALSE)
    /\ UNCHANGED <<viva_triggered, viva_in_progress, active_connections, tasks,
                   viva_questions, delivered, openai_api_key, scoring>>

NewTask(pc, sid, by, evidence) ==
    [pc |-> pc, session |-> sid, by |-> by, suspicious |-> evidence,
     cheating_evidence |-> <<>>,
     marked |-> FALSE, requested |-> FALSE, persisted |-> FALSE, pushed |-> FALSE,
     result |-> "none", questions |-> 0]

\* the recent events were fetched: asyncio.create_task(trigger_surprise_viva(...))
FetchAndLaunch(c) ==
    /\ Resumable
    /\ handler[c].pc = "fetch"
    /\ Len(tasks) < MaxTasks
    /\ tasks' = Append(tasks, NewTask("created", handler[c].session, c,
                                      TypesOf(suspicious_events(exam_events[handler[c].session]))))
    /\ handler' = SetHandler(c, "ack", handler[c].ev, TRUE)
    /\ UNCHANGED <<tracker, active_connections, exam_events, viva_questions,
                   delivered, openai_api_key, received, scoring>>

\* the query for the recent events raises: the receive loop reports the error
\* and goes on with the next message
FetchFails(c) ==
    /\ Resumable
    /\ handler[c].pc = "fetch"
    /\ handler' = SetHandler(c, "recv", "none", FALSE)
    /\ UNCHANGED <<tracker, active_connections, tasks, exam_events, viva_questions,
                   delivered, openai_api_key, received, scoring>>

\* exam_event_ack (and the notification of the event type) is sent
SendAck(c) ==
    /\ Continues(c)
    /\ handler[c].pc = "ack"
    /\ handler' = SetHandler(c, "recv", "none", FALSE)
    /\ UNCHANGED <<tracker, active_connections, tasks, exam_events, viva_questions,
                   delivered, openai_api_key, received, scoring>>

\* handle_exam_message, "viva_completed" branch
HandleVivaCompleted(c) ==
    /\ Continues(c)
    /\ handler[c].pc = "recv"
    /\ viva_in_progress' = mark_viva_completed(viva_in_progress, handler[c].session)
    /\ UNCHANGED <<session_scores, session_flags, viva_triggered, active_connections,
                   handler, tasks, exam_events, viva_questions, delivered,
                   openai_api_key, received, scoring>>

\* WebSocketDisconnect in the receive loop, then the finally block
Disconnect(c) ==
    /\ Continues(c)
    /\ handler[c].pc = "recv"
    /\ active_connections' = [active_connections EXCEPT ![handler[c].session] = NoConn]
    /\ handler' = SetHandler(c, "closed", "none", FALSE)
    /\ UNCHANGED <<tracker, tasks, exam_events, viva_questions, delivered,
                   openai_api_key, received, scoring>>

\* ------------------------------------------------------------------------
\* trigger_surprise_viva
\* ------------------------------------------------------------------------
Finish(t, result) == [t EXCEPT !.pc = "done", !.result = result]

\* the run up to its first suspension: the in-progress check and the marking
FirstStep(t) ==
    IF is_viva_in_progress(viva_in_progress, t.session)
    THEN [task |-> Finish(t, "false"),
          triggered |-> viva_triggered,
          in_progress |-> viva_in_progress]
    ELSE LET m == mark_viva_triggered(viva_triggered, viva_in_progress, t.session)
         IN [task |-> [t EXCEPT !.pc = "exam_fetch", !.marked = TRUE],
             triggered |-> m.triggered,
             in_progress |-> m.in_progress]

\* the detached task created by the event handler starts running
TaskStart(i) ==
    /\ ~LoopBlocked
    /\ tasks[i].pc = "created"
    /\ LET r == FirstStep(tasks[i])
       IN /\ tasks' = [tasks EXCEPT ![i] = r.task]
          /\ viva_triggered' = r.triggered
          /\ viva_in_progress' = r.in_progress
    /\ UNCHANGED <<session_scores, session_flags, active_connections, handler,
                   exam_events, viva_questions, delivered, openai_api_key, received, scoring>>

\* POST /exam/{exam_id}/trigger-viva awaits trigger_surprise_viva directly
manually_trigger_viva(s) ==
    /\ Resumable
    /\ Len(tasks) < MaxTasks
    /\ LET r == FirstStep(NewTask("created", s, "http", <<"clipboard_paste", "tab_switch">>))
       IN /\ tasks' = Append(tasks, r.task)
          /\ viva_triggered' = r.triggered
          /\ viva_in_progress' = r.in_progress
    /\ UNCHANGED <<session_scores, session_flags, active_connections, handler,
                   exam_events, viva_questions, delivered, openai_api_key, received, scoring>>

\* the except clause of trigger_surprise_viva, and the three explicit cleanups
FailAndClear(i) ==
    /\ tasks' = [tasks EXCEPT ![i] = Finish(@, "false")]
    /\ viva_in_progress' = mark_viva_completed(viva_in_progress, tasks[i].session)

\* the exam row was read (or the read raised); with an API key the blocking
\* call of generate_surprise_viva_questions starts
TaskExamFetched(i) ==
    /\ Resumable
    /\ tasks[i].pc = "exam_fetch"
    /\ \/ FailAndClear(i)
       \/ /\ tasks' = [tasks EXCEPT ![i] = Finish(@, "false")]
          /\ viva_in_progress' = viva_in_progress
       \/ IF ~openai_api_key
          THEN FailAndClear(i)
          ELSE /\ tasks' = [tasks EXCEPT ![i].pc = "generating",
                                         ![i].requested = TRUE,
                                         ![i].cheating_evidence = LastN(tasks[i].suspicious, 5)]
               /\ viva_in_progress' = viva_in_progress
    /\ UNCHANGED <<session_scores, session_flags, viva_triggered, active_connections,
                   handler, exam_events, viva_questions, delivered, openai_api_key,
                   received, scoring>>

\* the completion call returns: an error (an empty question list is raised as
\* an error by the generator) or k questions; then the store is awaited
TaskGenerationReturns(i) ==
    /\ tasks[i].pc = "generating"
    /\ \/ FailAndClear(i)
       \/ \E k \in 1..MaxQuestions :
            /\ tasks' = [tasks EXCEPT ![i].pc = "storing", ![i].questions = k]
            /\ viva_in_progress' = viva_in_progress
    /\ UNCHANGED <<session_scores, session_flags, viva_triggered, active_connections,
                   handler, exam_events, viva_questions, delivered, openai_api_key,
                   received, scoring>>

\* the questions are inserted and committed, or the store raises
TaskStored(i) ==
    /\ Resumable
    /\ tasks[i].pc = "storing"
    /\ \/ /\ FailAndClear(i)
          /\ viva_questions' = viva_questions
       \/ /\ tasks' = [tasks EXCEPT ![i].pc = "pushing", ![i].persisted = TRUE]
          /\ viva_questions' = [viva_questions EXCEPT ![tasks[i].session] = @ + tasks[i].questions]
          /\ viva_in_progress' = viva_in_progress
    /\ UNCHANGED <<session_scores, session_flags, viva_triggered, active_connections,
                   handler, exam_events, delivered, openai_api_key, received, scoring>>

\* exam_manager.send_to_session: nothing is sent without a registered socket,
\* and a failed send only unregisters the socket; the run returns True
TaskPush(i) ==
    /\ Resumable
    /\ tasks[i].pc = "pushing"
    /\ LET sid == tasks[i].session
       IN IF active_connections[sid] = NoConn
          THEN /\ tasks' = [tasks EXCEPT ![i] = Finish(@, "true")]
               /\ UNCHANGED <<delivered, active_connections>>
          ELSE \/ /\ tasks' = [tasks EXCEPT ![i] = Finish([@ EXCEPT !.pushed = TRUE], "true")]
                  /\ delivered' = [delivered EXCEPT ![sid] = @ + 1]
                  /\ UNCHANGED active_connections
               \/ /\ tasks' = [tasks EXCEPT ![i] = Finish(@, "true")]
                  /\ active_connections' = [active_connections EXCEPT ![sid] = NoConn]
                  /\ UNCHANGED delivered
    /\ UNCHANGED <<tracker, handler, exam_events, viva_questions, openai_api_key,
                   received, scoring>>

\* ------------------------------------------------------------------------
\* score_exam_events: the offline scoring of a session's event rows
\* ------------------------------------------------------------------------
server == <<session_scores, session_flags, viva_triggered, viva_in_progress,
            active_connections, handler, tasks, exam_events, viva_questions,
            delivered, openai_api_key, received>>

KnownTypes ==
    DOMAIN HIGH_PRIORITY_EVENTS \cup DOMAIN MEDIUM_PRIORITY_EVENTS
        \cup DOMAIN LOW_PRIORITY_EVENTS

\* event types outside the rule table: the default of score_exam_events for a
\* row without a type, and a type named in the module docstring only
UnknownTypes == {"unknown", "sudden_burst_text"}

\* a payload with field k absent, or present with one of the values
Field(k, values) == {EmptyData} \cup {[x \in {k} |-> v] : v \in values}

\* event_data payloads: for each field a refinement rule reads, the field is
\* absent or has a value on either side of each comparison of the rule;
\* event-supplied confidences and similarities also lie outside [0, 1]
Payloads(event_type) ==
    CASE event_type = "clipboard_paste" -> Field("length", {50, 101, 500, 600})
      [] event_type = "rapid_paste_burst" ->
            {a @@ b : a \in Field("paste_count", {2, 3, 5}),
                      b \in Field("time_window", {2000, 3000})}
      [] event_type = "typing_pattern_anomaly" ->
            {a @@ b : a \in Field("confidence", {-50, 0, 65, 150}),
                      b \in Field("deviation_percentage", {30, 31, 51})}
      [] event_type = "content_similarity" ->
            Field("similarity_score", {-20, 0, 50, 60, 75, 100, 150})
      [] event_type = "writing_style_drift" ->
            Field("similarity_score", {-300, 0, 20, 30, 100, 250})
      [] event_type = "wpm_tracking" ->
            {a @@ b : a \in Field("wpm", {3, 60, 120, 130}),
                      b \in Field("chars_typed", {100, 150})}
      [] event_type = "face_count_violation" ->
            {a @@ b : a \in Field("face_count", {0, 1, 2}),
                      b \in Field("violation_duration", {10000, 15000, 31000})}
      [] event_type = "mouse_movement" ->
            {a @@ b : a \in Field("pattern_type", {"normal", "suspicious", "rapid"}),
                      b \in Field("velocity", {100, 150})}
      [] event_type = "gaze_tracking" ->
            {a @@ b @@ c : a \in Field("looking_away", BOOLEAN),
                           b \in Field("duration_away", {5000, 6000, 12000}),
                           c \in Field("confidence", {-10, 0, 65, 150})}
      [] event_type = "tab_switch" ->
            Field("away_duration", {5000, 6000, 11000, 31000})
      [] event_type = "audio_assistance_detected" ->
            {a @@ b @@ c : a \in Field("confidence_score", {-10, 0, 50, 97, 150}),
                           b \in Field("multiple_speakers", BOOLEAN),
                           c \in Field("suspicious_phrases", {1, 2, 4})}
      [] OTHER -> {EmptyData, [confidence |-> 150, similarity_score |-> -20]}

Row(event_type, event_data, timestamp) ==
    [event_type |-> event_type, event_data |-> event_data, timestamp |-> timestamp]

\* histories of one row: every event type with every payload
SingleRows ==
    UNION {{<<Row(t, d, 0)>> : d \in Payloads(t)} : t \in KnownTypes \cup UnknownTypes}

\* rows of the longer histories: paste events 4 and 25 minutes apart, a tab
\* switch, and typing-speed samples 10 s later
HistoryRows ==
    {Row("clipboard_paste", EmptyData, 0),
     Row("rapid_paste_burst", EmptyData, 240000),
     Row("clipboard_paste", EmptyData, 1500000),
     Row("tab_switch", EmptyData, 0),
     Row("wpm_tracking", [wpm |-> 50], 10000),
     Row("wpm_tracking", [wpm |-> 130], 10000)}

Histories == UNION {[1..k -> HistoryRows] : k \in 0..MaxHistory}

InitScoring ==
    /\ InitServer
    /\ openai_api_key
    /\ events_data \in SingleRows \cup Histories
    /\ scored_events = <<>>
    /\ analysis = [status |-> "none"]
    /\ analytics = [status |-> "none"]

\* the loop of score_exam_events over one row
ScoredRow(event_row) ==
    LET event_type == Get(event_row, "event_type", "unknown")
        event_data == Get(event_row, "event_data", EmptyData)
        timestamp == Get(event_row, "timestamp", 0)
    IN [event_type |-> event_type, event_data |-> event_data, timestamp |-> timestamp]
       @@ calculate_event_score(event_type, event_data)

\* score_exam_events(events_data): every row is scored, then the scored rows
\* are analyzed; an exception of the analyzer leaves the function
score_exam_events ==
    /\ scored_events' = [i \in 1..Len(events_data) |-> ScoredRow(events_data[i])]
    /\ analysis' = analyze_event_patterns(scored_events')
    /\ UNCHANGED <<server, events_data, analytics>>

\* after a call on the rows, the caller passes the same rows again with two
\* neighbours exchanged
Resubmit(i) ==
    /\ analysis.status # "none"
    /\ scored_events = [j \in 1..Len(events_data) |-> ScoredRow(events_data[j])]
    /\ i \in 1..(Len(events_data) - 1)
    /\ events_data' = [events_data EXCEPT ![i] = events_data[i + 1],
                                          ![i + 1] = events_data[i]]
    /\ UNCHANGED <<server, scored_events, analysis, analytics>>

\* ------------------------------------------------------------------------
\* GET /exam/{exam_id}/analytics/{session_id}
\* ------------------------------------------------------------------------
\* event types a client logs during the analytics runs
LoggedTypes == {"tab_switch", "clipboard_paste", "face_count_violation", "wpm_tracking"}

LoggedData(event_type) == IF event_type = "wpm_tracking" THEN [wpm |-> 50] ELSE EmptyData

\* save_exam_event inserts a row for the session; the client's clock has
\* advanced by one second since its previous event
LogEvent(event_type) ==
    /\ Len(events_data) < MaxLog
    /\ events_data' = Append(events_data,
                             Row(event_type, LoggedData(event_type),
                                 (Len(events_data) + 1) * 1000))
    /\ UNCHANGED <<server, scored_events, analysis, analytics>>

\* the ExamTimelineEvent built for the n-th row of the result set
ExamTimelineEvent(row, n) ==
    LET sc == calculate_event_score(row.event_type, row.event_data)
    IN [id |-> n, event_type |-> row.event_type, event_data |-> row.event_data,
        timestamp |-> row.timestamp, priority |-> sc.priority,
        confidence_score |-> sc.confidence_score, is_flagged |-> sc.is_flagged]

\* SELECT ... WHERE session_id = ? ORDER BY timestamp ASC, each row scored
timeline_events(rows) ==
    LET result == sorted_events(rows)
    IN [n \in 1..Len(result) |-> ExamTimelineEvent(result[n], n)]

RECURSIVE SumConfidence(_)
SumConfidence(events) ==
    IF events = <<>> THEN 0
    ELSE Head(events).confidence_score + SumConfidence(Tail(events))

Flagged(events) == SelectSeq(events, LAMBDA e : e.is_flagged)

\* the entries of step_timeline for flagged events (no progress event such as
\* exam_started is among the logged types)
step_timeline(events) ==
    LET flagged == Flagged(events)
    IN [i \in 1..Len(flagged) |->
          [step |-> "flagged", event_type |-> flagged[i].event_type,
           timestamp |-> flagged[i].timestamp, status |-> "flagged",
           priority |-> flagged[i].priority, confidence |-> flagged[i].confidence_score]]

\* the dictionaries handed to the pattern analyzer
all_events(events) ==
    [i \in 1..Len(events) |->
       [event_type |-> events[i].event_type, event_data |-> events[i].event_data,
        timestamp |-> events[i].timestamp,
        confidence_score |-> events[i].confidence_score]]

\* the pattern step without its try/except: an exception of the analyzer
\* leaves the step
pattern_descriptions_unguarded(outcome) ==
    IF outcome.status = "raised" THEN [status |-> "raised"]
    ELSE [status |-> "built",
          list |-> [i \in 1..Len(outcome.patterns) |->
                      [pattern |-> outcome.patterns[i].type,
                       severity |-> outcome.patterns[i].severity,
                       details |-> outcome.patterns[i]]]]

\* the try/except around the pattern analysis: the descriptions of the
\* patterns the analyzer returned, or the empty list when it raised
pattern_descriptions(outcome) ==
    IF outcome.status = "raised" THEN [status |-> "built", list |-> <<>>]
    ELSE [status |-> "built",
          list |-> [i \in 1..Len(outcome.patterns) |->
                      [pattern |-> outcome.patterns[i].type,
                       severity |-> outcome.patterns[i].severity,
                       details |-> outcome.patterns[i]]]]

\* the fields declared by the ExamAnalytics model (session_id is the session
\* of the request)
ExamAnalyticsFields ==
    {"total_events", "flagged_events", "high_priority_events",
     "average_confidence_score", "suspicious_activity_score",
     "timeline_events", "step_timeline"}

\* ExamAnalytics(**kwargs): a pydantic model keeps its declared fields and
\* ignores any other keyword
ExamAnalytics(kwargs) ==
    [f \in DOMAIN kwargs \cap ExamAnalyticsFields |-> kwargs[f]]

\* the body of get_exam_analytics once the permission check has passed and
\* the rows were read: the outcome of the request
analytics_of(rows) ==
    LET events == timeline_events(rows)
        total_events == Len(events)
        flagged_events == Len(Flagged(events))
        high_priority_events ==
            Len(SelectSeq(events, LAMBDA e : e.is_flagged /\ e.priority = 3))
        avg_confidence ==
            IF total_events > 0 THEN SumConfidence(events) \div total_events ELSE 0
        suspicious_score ==
            IF total_events > 0
            THEN Min(100, (flagged_events * 200) \div Max(total_events, 1))
            ELSE 0
        built == pattern_descriptions(analyze_event_patterns(all_events(events)))
    IN IF built.status = "raised"
       THEN [status |-> "error", status_code |-> 500]
       ELSE [status |-> "returned",
             pattern_descriptions |-> built.list,
             response |->
                 ExamAnalytics([total_events |-> total_events,
                                flagged_events |-> flagged_events,
                                high_priority_events |-> high_priority_events,
                                average_confidence_score |-> avg_confidence,
                                suspicious_activity_score |-> suspicious_score,
                                timeline_events |-> events,
                                step_timeline |-> step_timeline(events),
                                suspicious_patterns |-> built.list])]

\* a request of the exam's creator for the session: the exam is not found, the
\* caller is not the creator, the database raises, or the body runs
get_exam_analytics ==
    /\ \/ /\ \E status_code \in {404, 403, 500} :
                analytics' = [status |-> "error", status_code |-> status_code]
          /\ scored_events' = <<>>
          /\ analysis' = [status |-> "none"]
       \/ /\ analytics' = analytics_of(events_data)
          /\ scored_events' = timeline_events(events_data)
          /\ analysis' = analyze_event_patterns(all_events(scored_events'))
    /\ UNCHANGED <<server, events_data>>

\* ------------------------------------------------------------------------
\* Specifications
\* ------------------------------------------------------------------------
HandlerNext(c, sessions, names, cap) ==
    \/ \E s \in sessions : Connect(c, s)
    \/ \E n \in names : HandleEvent(c, n, cap)
    \/ FetchAndLaunch(c)
    \/ FetchFails(c)
    \/ SendAck(c)
    \/ HandleVivaCompleted(c)
    \/ Disconnect(c)

TaskNext(i) ==
    \/ TaskStart(i)
    \/ TaskExamFetched(i)
    \/ TaskGenerationReturns(i)
    \/ TaskStored(i)
    \/ TaskPush(i)

\* events of the runs with several entry points: one that reaches the score
\* threshold on its own and one that is never flagged
SharedEvents == {"similar", "video"}

\* one connection, the manual endpoint for its session, every run
Next ==
    \/ HandlerNext("c1", {"s1"}, SharedEvents, MaxSharedEvents)
    \/ manually_trigger_viva("s1")
    \/ \E i \in DOMAIN tasks : TaskNext(i)

Spec == Init /\ [][Next]_vars

\* one connection whose messages are handled one at a time, no manual trigger
NextSeq ==
    \/ HandlerNext("c1", {"s1"}, EventNames, MaxEvents)
    \/ \E i \in DOMAIN tasks : TaskNext(i)

SpecSeq == Init /\ [][NextSeq]_vars

\* two connections opened by the same user for the same exam within one second
\* carry the same session id: their handlers run concurrently on the session
NextShared ==
    \/ \E c \in Conns : HandlerNext(c, {"s1"}, SharedEvents, MaxSharedEvents)
    \/ \E i \in DOMAIN tasks : TaskNext(i)

SpecShared == Init /\ [][NextShared]_vars

\* offline scoring of given event rows
NextScoring ==
    \/ score_exam_events
    \/ \E i \in 1..MaxHistory : Resubmit(i)

SpecScoring == InitScoring /\ [][NextScoring]_vars

\* two users, each with one connection on a session of their own
NextCross ==
    \/ HandlerNext("c1", {"s1"}, SharedEvents, MaxSharedEvents)
    \/ HandlerNext("c2", {"s2"}, SharedEvents, MaxSharedEvents)
    \/ \E i \in DOMAIN tasks : TaskNext(i)

SpecCross == Init /\ [][NextCross]_vars

\* events of the session whose query for the recent events fails: a paste
\* that stays below the threshold and an event that reaches it
EvidenceEvents == {"paste", "similar"}

\* one connection on a database that may fail the query for the recent events
NextEvidence ==
    \/ HandlerNext("c1", {"s1"}, EvidenceEvents, MaxEvidenceEvents)
    \/ \E i \in DOMAIN tasks : TaskNext(i)

SpecEvidence == Init /\ [][NextEvidence]_vars

\* one session whose events are logged while its analytics are requested
InitAnalytics ==
    /\ InitServer
    /\ openai_api_key
    /\ events_data = <<>>
    /\ scored_events = <<>>
    /\ analysis = [status |-> "none"]
    /\ analytics = [status |-> "none"]

NextAnalytics ==
    \/ \E event_type \in LoggedTypes : LogEvent(event_type)
    \/ get_exam_analytics

SpecAnalytics == InitAnalytics /\ [][NextAnalytics]_vars

\* ------------------------------------------------------------------------
\* Properties
\* ------------------------------------------------------------------------
RunsOf(s) == {i \in DOMAIN tasks : tasks[i].session = s}

\* C1: with the events of a session handled one at a time, at most one run of
\* the orchestrator marks the session as triggered and at most one requests
\* question generation, however often the thresholds are met again.
C1_AtMostOneTrigger ==
    \A s \in Sessions :
        /\ Cardinality({i \in RunsOf(s) : tasks[i].marked}) <= 1
        /\ Cardinality({i \in RunsOf(s) : tasks[i].requested}) <= 1

\* the only run was launched when one suspicious event was logged, it failed
\* after requesting generation, and two more events that keep the score over
\* the threshold have been handled since
C1_Witness ==
    /\ Len(tasks) = 1
    /\ tasks[1].pc = "done" /\ tasks[1].requested /\ tasks[1].result = "false"
    /\ Len(tasks[1].suspicious) = 1
    /\ exam_events["s1"] = <<"similar", "similar", "similar">>
    /\ "s1" \notin viva_in_progress
    /\ handler["c1"].pc = "recv"

\* the step in which connection c scores an event
Scores(c) == handler[c].pc = "recv" /\ handler'[c].pc \in {"fetch", "ack"}

ShouldTrigger(s) ==
    should_trigger_viva(session_scores, session_flags, viva_triggered, viva_in_progress, s)

\* C2: viva_triggered is set-once: no step removes a session from it,
\* should_trigger_viva is false for every session in it after every step,
\* whatever happened in between, and no event handled for such a session
\* makes its handler see the trigger condition.
C2_TriggeredSetOnce ==
    [][/\ viva_triggered \subseteq viva_triggered'
       /\ \A s \in viva_triggered' : ~ShouldTrigger(s)'
       /\ \A c \in Conns :
            (Scores(c) /\ handler[c].session \in viva_triggered) => ~handler'[c].trigger]_vars

\* a viva was delivered and completed, and a later event on the session, whose
\* score is over the threshold, did not trigger again
C2_Witness ==
    /\ delivered["s1"] = 1
    /\ "s1" \in viva_triggered
    /\ "s1" \notin viva_in_progress
    /\ Get(session_scores, "s1", 0) >= viva_threshold
    /\ handler["c1"].pc = "ack"
    /\ ~handler["c1"].trigger

\* C3: at most one surprise_viva message is ever delivered to a session, over
\* every entry point that starts the orchestrator.
C3_AtMostOneDelivered == \A s \in Sessions : delivered[s] <= 1

\* C4: two handlers of a session never both launch a run of the orchestrator
\* that goes on to request question generation.
C4_NoDuplicateRun ==
    \A s \in Sessions :
        Cardinality({i \in RunsOf(s) : tasks[i].by \in Conns /\ tasks[i].requested}) < 2

\* C5: a run that marked the session and ends in failure has removed the
\* session from viva_in_progress when it returns False, and has left
\* viva_triggered set.
C5_FailureClearsInProgress ==
    [][\A i \in DOMAIN tasks :
          (/\ tasks[i].pc # "done"
           /\ tasks'[i].pc = "done"
           /\ tasks'[i].result = "false"
           /\ tasks'[i].marked)
          => (/\ tasks[i].session \notin viva_in_progress'
              /\ tasks[i].session \in viva_triggered')]_vars

\* C6: should_trigger_viva is true exactly for a session that is neither
\* triggered nor in progress and whose score is >= 3.0 or whose flag count is
\* >= 3; it is false for a session with no recorded events.
C6_TriggerCondition ==
    \A s \in Sessions :
        /\ ShouldTrigger(s) =
              (/\ s \notin viva_triggered
               /\ s \notin viva_in_progress
               /\ s \in DOMAIN session_scores
               /\ (session_scores[s] >= 300 \/ session_flags[s] >= 3))
        /\ s \notin DOMAIN session_scores => ~ShouldTrigger(s)

\* the handler saw should_trigger_viva true on the flag count alone, with the
\* count exactly at the threshold
C6_Witness ==
    /\ handler["c1"].trigger
    /\ session_flags["s1"] = 3
    /\ session_scores["s1"] < 300

\* C7: every add_event_score adds exactly confidence * priority to the
\* session's score, flagged or not, and exactly 1 to the flag count iff the
\* event is flagged; scores and flag counts never decrease.
C7_ScoreAccumulation ==
    [][/\ \A c \in Conns :
            Scores(c) =>
              LET s == handler[c].session
                  sc == Scored(handler'[c].ev)
              IN /\ session_scores'[s] =
                       Get(session_scores, s, 0) + sc.confidence_score * sc.priority
                 /\ session_flags'[s] =
                       Get(session_flags, s, 0) + (IF sc.is_flagged THEN 1 ELSE 0)
       /\ \A s \in DOMAIN session_scores :
            /\ s \in DOMAIN session_scores'
            /\ session_scores'[s] >= session_scores[s]
            /\ session_flags'[s] >= session_flags[s]]_vars

\* an unflagged event was scored after a flagged one: its weight was added and
\* the flag count stayed
C7_Witness ==
    /\ received = 2
    /\ handler["c1"].ev = "video"
    /\ session_scores["s1"] = 250
    /\ session_flags["s1"] = 1

FirstPasteScored ==
    /\ received = 1
    /\ handler["c1"].ev = "paste"
    /\ handler["c1"].pc \in {"fetch", "ack"}

SecondPasteScored ==
    /\ received = 2
    /\ handler["c1"].ev = "paste"
    /\ handler["c1"].pc \in {"fetch", "ack"}
    /\ session_scores["s1"] = 480

\* C8 as stated: after the first clipboard_paste (priority 3, confidence 0.8) on
\* a fresh session should_trigger_viva is already true.
C8_TriggerAfterFirstPaste == FirstPasteScored => handler["c1"].trigger

\* C8 amended: after the first clipboard_paste the score is 2.4, below the
\* threshold, with one flag, and should_trigger_viva is false; it is true right
\* after the second one (4.8), without waiting for a third.
C8_TriggerAfterSecondPaste ==
    /\ FirstPasteScored =>
          /\ session_scores["s1"] = 240
          /\ session_flags["s1"] = 1
          /\ ~handler["c1"].trigger
    /\ SecondPasteScored => handler["c1"].trigger

C8_Witness == SecondPasteScored /\ handler["c1"].trigger /\ handler["c1"].pc = "ack"

GenerationPending == \E i \in DOMAIN tasks : tasks[i].pc = "generating"

\* C9: while question generation is pending the handler is not held up: it can
\* send the acknowledgment it owes and handle the next event of the session.
C9_HandlerNeverWaits ==
    \A c \in Conns :
        /\ (GenerationPending /\ handler[c].pc = "ack") => ENABLED SendAck(c)
        /\ (GenerationPending /\ handler[c].pc = "recv")
              => ENABLED (\E n \in EventNames : HandleEvent(c, n, received + 1))

\* C10: a run returns True only after the challenge was pushed to the session.
C10_TrueOnlyAfterPush ==
    \A i \in DOMAIN tasks : tasks[i].result = "true" => tasks[i].pushed

\* C11: once a session has ended (its connection is closed and the session is
\* marked completed) the tracker holds nothing for it: no score, no flag
\* count, no triggered marker and no in-progress marker.
C11_EndedSessionCleared ==
    \A c \in Conns :
        handler[c].pc = "closed" =>
            /\ handler[c].session \notin DOMAIN session_scores
            /\ handler[c].session \notin DOMAIN session_flags
            /\ handler[c].session \notin viva_triggered
            /\ handler[c].session \notin viva_in_progress

\* the rows scored by the last call of score_exam_events
ScoredRows == {scored_events[i] : i \in 1..Len(scored_events)}

\* C12: for every event type, known or unknown, and every payload, also with
\* event-supplied confidence or similarity values below 0 or above 1, the
\* returned confidence lies in [0.0, 1.0] and the priority is 1, 2 or 3.
C12_ConfidenceBounds ==
    \A r \in ScoredRows :
        /\ r.confidence_score >= 0
        /\ r.confidence_score <= 100
        /\ r.priority \in {1, 2, 3}

\* a similarity of 1.5 and a style similarity of -3.0 were scored as 1.0
C12_Witness ==
    \E r \in ScoredRows :
        /\ r.event_type \in {"content_similarity", "writing_style_drift"}
        /\ Get(r.event_data, "similarity_score", 0) \in {150, -300}
        /\ r.confidence_score = 100

\* C13: a priority-3 event is flagged iff confidence > 0.6, a priority-2 event
\* iff confidence > 0.7, a priority-1 event iff it is gaze_tracking with
\* looking_away true, duration_away > 10000 and confidence > 0.6; video_start
\* with an empty payload is priority 1, confidence 0.1, not flagged.
C13_FlagRule ==
    \A r \in ScoredRows :
        /\ r.priority = 3 => (r.is_flagged <=> r.confidence_score > 60)
        /\ r.priority = 2 => (r.is_flagged <=> r.confidence_score > 70)
        /\ r.priority = 1 =>
              (r.is_flagged <=>
                  /\ r.event_type = "gaze_tracking"
                  /\ Get(r.event_data, "looking_away", FALSE)
                  /\ Get(r.event_data, "duration_away", 0) > 10000
                  /\ r.confidence_score > 60)
        /\ (r.event_type = "video_start" /\ r.event_data = EmptyData) =>
              (r.priority = 1 /\ r.confidence_score = 10 /\ ~r.is_flagged)

\* a gaze event looking away for 6 s with confidence 0.7 was not flagged
C13_Witness ==
    \E r \in ScoredRows :
        /\ r.event_type = "gaze_tracking"
        /\ Get(r.event_data, "looking_away", FALSE)
        /\ Get(r.event_data, "duration_away", 0) = 6000
        /\ r.confidence_score = 70
        /\ ~r.is_flagged

C15_EmptyPayloadKeepsBase ==
    \A r \in ScoredRows :
        (r.event_type \in KnownTypes /\ r.event_data = EmptyData) =>
            r.confidence_score = BaseConfidence(r.event_type)

\* the deltas the refinement rules state for an event, summed
StatedDelta(event_type, d) ==
    CASE event_type = "clipboard_paste" ->
            (IF Get(d, "length", 0) > 500 THEN 10
             ELSE IF Get(d, "length", 0) > 100 THEN 5 ELSE 0)
      [] event_type = "rapid_paste_burst" ->
            (IF Get(d, "paste_count", 1) >= 5 THEN 3
             ELSE IF Get(d, "paste_count", 1) >= 3 THEN 2 ELSE 0)
            + (IF Get(d, "time_window", 5000) <= 2000 THEN 3 ELSE 0)
      [] event_type = "wpm_tracking" ->
            (IF Get(d, "wpm", 0) > 120 THEN 30
             ELSE IF Get(d, "wpm", 0) < 5 /\ Get(d, "chars_typed", 0) > 100 THEN 20
             ELSE 0)
      [] event_type = "face_count_violation" ->
            (IF Get(d, "face_count", 1) = 0 THEN 15
             ELSE IF Get(d, "face_count", 1) > 1 THEN 10 ELSE 0)
            + (IF Get(d, "violation_duration", 0) > 30000 THEN 10
               ELSE IF Get(d, "violation_duration", 0) > 10000 THEN 5 ELSE 0)
      [] event_type = "mouse_movement" ->
            (IF Get(d, "pattern_type", "normal") = "suspicious" THEN 20
             ELSE IF Get(d, "pattern_type", "normal") = "rapid" THEN 10 ELSE 0)
            + (IF Get(d, "velocity", 0) > 100 THEN 10 ELSE 0)
      [] event_type = "tab_switch" ->
            (IF Get(d, "away_duration", 0) > 30000 THEN 8
             ELSE IF Get(d, "away_duration", 0) > 10000 THEN 5
             ELSE IF Get(d, "away_duration", 0) > 5000 THEN 2 ELSE 0)

\* C16: for clipboard_paste, rapid_paste_burst, wpm_tracking,
\* face_count_violation, mouse_movement and tab_switch the confidence is the
\* base confidence plus the stated deltas whose conditions hold, clamped only
\* to [0, 1]: wpm > 120 gives 0.9, and a paste of length 600 gives 0.9, flagged.
C16_BasePlusDeltas ==
    \A r \in ScoredRows :
        /\ r.event_type \in {"clipboard_paste", "rapid_paste_burst", "wpm_tracking",
                             "face_count_violation", "mouse_movement", "tab_switch"} =>
              r.confidence_score =
                  Max(0, Min(100, BaseConfidence(r.event_type)
                                     + StatedDelta(r.event_type, r.event_data)))
        /\ (r.event_type = "wpm_tracking" /\ Get(r.event_data, "wpm", 0) > 120) =>
              r.confidence_score = 90
        /\ (r.event_type = "clipboard_paste" /\ Get(r.event_data, "length", 0) = 600) =>
              (r.confidence_score = 90 /\ r.is_flagged)

\* C17: for a content_similarity event with a similarity_score in [0, 1] the
\* confidence is that score itself, and the event is flagged iff it is > 0.6.
C17_SimilarityVerbatim ==
    \A r \in ScoredRows :
        (/\ r.event_type = "content_similarity"
         /\ "similarity_score" \in DOMAIN r.event_data
         /\ r.event_data["similarity_score"] \in 0..100) =>
            /\ r.confidence_score = r.event_data["similarity_score"]
            /\ r.is_flagged = (r.event_data["similarity_score"] > 60)

PasteRows == {i \in 1..Len(scored_events) : IsPaste(scored_events[i])}

\* three paste events of the history lie less than 10 minutes apart
ThreePastesWithinTenMinutes ==
    \E a, b, c \in PasteRows :
        /\ a # b /\ a # c /\ b # c
        /\ \A x, y \in {a, b, c} :
              Abs(scored_events[x].timestamp - scored_events[y].timestamp) < 600000

PatternsOfType(t) ==
    {i \in 1..Len(analysis.patterns) : analysis.patterns[i].type = t}

\* C18: whenever the history holds at least 3 clipboard_paste or
\* rapid_paste_burst events within a 10-minute span, the analyzer returns
\* exactly one frequent_paste_operations pattern, of High severity, whatever
\* other events (further paste events outside the span included) it holds.
C18_FrequentPasteDetected ==
    (analysis.status # "none" /\ ThreePastesWithinTenMinutes) =>
        /\ analysis.status = "returned"
        /\ Cardinality(PatternsOfType("frequent_paste_operations")) = 1
        /\ \A i \in PatternsOfType("frequent_paste_operations") :
              analysis.patterns[i].severity = "High"

WpmRows == {i \in 1..Len(scored_events) : IsWpm(scored_events[i])}

WpmOf(i) == Get(scored_events[i].event_data, "wpm", 0)

ExtremeWpm ==
    \E hi \in WpmRows :
        \/ WpmOf(hi) > 120
        \/ \E lo \in WpmRows : WpmOf(hi) - WpmOf(lo) > 60

\* C19: for a history with at least 5 wpm_tracking events the analyzer returns
\* normally, with one extreme_wpm_variation pattern of Medium severity if
\* (max - min) > 60 or max > 120, and without that pattern otherwise.
C19_ExtremeWpmVariation ==
    (analysis.status # "none" /\ Cardinality(WpmRows) >= 5) =>
        /\ analysis.status = "returned"
        /\ ExtremeWpm <=>
              \E i \in PatternsOfType("extreme_wpm_variation") :
                  analysis.patterns[i].severity = "Medium"

Count(q, r) == Cardinality({i \in 1..Len(q) : q[i] = r})

SameRows(q1, q2) ==
    /\ Len(q1) = Len(q2)
    /\ \A i \in 1..Len(q1) : Count(q1, q1[i]) = Count(q2, q1[i])

\* C20: once a history has been scored and analyzed, scoring it again, in the
\* same or in another order of the rows, classifies every row as before
\* (priority, confidence, flagged, description) and gives the identical
\* outcome of the pattern analyzer.
C20_Deterministic ==
    [][analysis.status # "none" =>
          /\ analysis' = analysis
          /\ SameRows(scored_events', scored_events)]_vars

\* a history with two patterns was scored and is passed in again in another
\* order
C20_Witness ==
    /\ analysis.status = "returned"
    /\ Len(analysis.patterns) >= 2
    /\ scored_events # [j \in 1..Len(events_data) |-> ScoredRow(events_data[j])]

C22_MostRecentEvidence ==
    \A i \in DOMAIN tasks :
        tasks[i].requested =>
            /\ Len(tasks[i].cheating_evidence) <= 5
            /\ tasks[i].cheating_evidence = FirstN(tasks[i].suspicious, 5)

\* the payload d with duration_away set to v
WithDurationAway(d, v) ==
    [k \in DOMAIN d \cup {"duration_away"} |-> IF k = "duration_away" THEN v ELSE d[k]]

\* C23: for a gaze_tracking row with looking_away true and no or zero supplied
\* confidence the duration bonus is effective: the confidence is 0.1 higher
\* for duration_away > 10000 and 0.05 higher for 5000 < duration_away <= 10000
\* than for the same event with duration_away 5000; looking away for 12000 ms
\* with confidence 0.0 gives 0.8, flagged.
C23_GazeDurationBonus ==
    \A r \in ScoredRows :
        (/\ r.event_type = "gaze_tracking"
         /\ Get(r.event_data, "looking_away", FALSE)
         /\ "duration_away" \in DOMAIN r.event_data
         /\ ("confidence" \in DOMAIN r.event_data => r.event_data.confidence = 0))
        => LET short == calculate_event_score("gaze_tracking",
                                              WithDurationAway(r.event_data, 5000))
               duration_away == r.event_data.duration_away
           IN /\ duration_away > 10000 =>
                   r.confidence_score = short.confidence_score + 10
              /\ (duration_away > 5000 /\ duration_away <= 10000) =>
                   r.confidence_score = short.confidence_score + 5
              /\ (duration_away = 12000 /\ "confidence" \in DOMAIN r.event_data) =>
                   (r.confidence_score = 80 /\ r.is_flagged)

\* the tab switches followed by a typing event less than 30 s later
QualifyingTabSwitches ==
    {i \in 1..Len(scored_events) :
        /\ IsTabSwitch(scored_events[i])
        /\ \E j \in 1..Len(scored_events) :
              /\ IsTyping(scored_events[j])
              /\ scored_events[j].timestamp > scored_events[i].timestamp
              /\ scored_events[j].timestamp - scored_events[i].timestamp < 30000}

\* the tab_switch_quick_typing patterns the analyzer returned
QuickTypingPatterns ==
    IF analysis.status = "returned"
    THEN SelectSeq(analysis.patterns, LAMBDA p : p.type = "tab_switch_quick_typing")
    ELSE <<>>

\* C24: the analyzer returns one tab_switch_quick_typing pattern of High
\* severity for each tab switch that has a typing_pattern_anomaly or
\* wpm_tracking event strictly later and less than 30000 ms after it, and none
\* for any other tab switch: as many patterns as qualifying tab switches.
C24_QuickTypingPerTabSwitch ==
    analysis.status # "none" =>
        /\ Len(QuickTypingPatterns) = Cardinality(QualifyingTabSwitches)
        /\ \A k \in 1..Len(QuickTypingPatterns) :
              /\ QuickTypingPatterns[k].severity = "High"
              /\ \E i \in QualifyingTabSwitches :
                    QuickTypingPatterns[k].tab_time = scored_events[i].timestamp
        /\ \A i \in QualifyingTabSwitches :
              \E k \in 1..Len(QuickTypingPatterns) :
                  QuickTypingPatterns[k].tab_time = scored_events[i].timestamp

\* a run pushes only what it has persisted
PushAfterPersist == \A i \in DOMAIN tasks' : tasks'[i].pushed => tasks'[i].persisted

\* a run whose store fails pushes nothing, clears the marker and returns false
FailedStoreClears ==
    \A i \in DOMAIN tasks :
        (tasks[i].pc = "storing" /\ tasks'[i].pc = "done") =>
            /\ tasks'[i].result = "false"
            /\ ~tasks'[i].pushed
            /\ delivered' = delivered
            /\ tasks[i].session \notin viva_in_progress'

\* a run that returns true leaves its session in progress
SuccessLeavesInProgress ==
    \A i \in DOMAIN tasks :
        (tasks[i].result # "true" /\ tasks'[i].result = "true") =>
            tasks[i].session \in viva_in_progress'

\* after a successful run only a viva_completed message ends the viva
InProgressUntilCompleted ==
    \A i \in DOMAIN tasks :
        (/\ tasks[i].result = "true"
         /\ tasks[i].session \in viva_in_progress
         /\ tasks[i].session \notin viva_in_progress') =>
            \E c \in Conns : handler[c].session = tasks[i].session /\ HandleVivaCompleted(c)

\* C25: the steps of a run are ordered: the challenge is pushed only after
\* the questions were persisted; a failed store pushes nothing, clears the
\* in-progress marker and returns false; after a successful run the session
\* is in viva_in_progress and stays there until a viva_completed message.
C25_OrderedSteps ==
    [][/\ PushAfterPersist
       /\ FailedStoreClears
       /\ SuccessLeavesInProgress
       /\ InProgressUntilCompleted]_vars

\* a run that has marked its session and has not returned yet
InFlight(t) == t.marked /\ t.pc # "done"

\* a challenge is written to the socket of a session that is in progress
PushedWhileInProgress ==
    \A s \in Sessions : delivered'[s] # delivered[s] => s \in viva_in_progress

\* no two runs of a session are in flight together
OneRunInFlight ==
    \A i, j \in DOMAIN tasks' :
        (i # j /\ tasks'[i].session = tasks'[j].session) =>
            ~(InFlight(tasks'[i]) /\ InFlight(tasks'[j]))

\* C26: a challenge is pushed to a session only while the session is marked
\* viva_in_progress, and no second run starts alongside a run in flight, also
\* when a viva_completed message is received while the run is in flight.
C26_PushOnlyInProgress == [][PushedWhileInProgress /\ OneRunInFlight]_vars

\* C27: in every reachable tracker state every session in viva_in_progress is
\* in viva_triggered, and session_scores and session_flags have the same keys.
C27_TrackerConsistent ==
    /\ viva_in_progress \subseteq viva_triggered
    /\ DOMAIN session_scores = DOMAIN session_flags

\* a session with an unflagged event scored whose viva is in progress
C27_Witness ==
    /\ "s1" \in viva_in_progress
    /\ "s1" \in DOMAIN session_scores
    /\ session_scores["s1"] > 0
    /\ session_flags["s1"] = 0

\* what the server holds about session s
ScoreOf(s) ==
    [score |-> IF s \in DOMAIN session_scores THEN <<session_scores[s]>> ELSE <<>>,
     flags |-> IF s \in DOMAIN session_flags THEN <<session_flags[s]>> ELSE <<>>]

MarkersOf(s) ==
    [triggered |-> s \in viva_triggered, in_progress |-> s \in viva_in_progress]

SessionState(s) ==
    [score |-> ScoreOf(s), markers |-> MarkersOf(s), events |-> exam_events[s],
     questions |-> viva_questions[s], delivered |-> delivered[s],
     connection |-> active_connections[s]]

\* the step is one of a handler or of a run of session s
OperatesOn(s) ==
    \/ \E c \in Conns :
          /\ handler'[c].session = s
          /\ handler'[c] # handler[c] \/ HandleVivaCompleted(c)
    \/ \E i \in DOMAIN tasks' :
          /\ tasks'[i].session = s
          /\ i \in DOMAIN tasks => tasks'[i] # tasks[i]

\* C28: a step that adds an event score changes the score and flag count of
\* one session and no viva marker; a step that changes viva markers changes
\* those of one session and no score or flag count; a step of a handler or a
\* run of one session changes nothing the server holds about another session.
C28_Framed ==
    [][/\ \A s \in Sessions :
             ScoreOf(s)' # ScoreOf(s) =>
                 /\ OperatesOn(s)
                 /\ \A o \in Sessions : MarkersOf(o)' = MarkersOf(o)
                 /\ \A o \in Sessions \ {s} : ScoreOf(o)' = ScoreOf(o)
       /\ \A s \in Sessions :
             MarkersOf(s)' # MarkersOf(s) =>
                 /\ OperatesOn(s)
                 /\ \A o \in Sessions : ScoreOf(o)' = ScoreOf(o)
                 /\ \A o \in Sessions \ {s} : MarkersOf(o)' = MarkersOf(o)
       /\ \A s, o \in Sessions :
             (OperatesOn(o) /\ s # o) => SessionState(s)' = SessionState(s)]_vars

\* both sessions have scores, one has its viva in progress and the viva of
\* the other was completed
C28_Witness ==
    /\ DOMAIN session_scores = {"s1", "s2"}
    /\ "s1" \in viva_in_progress
    /\ "s2" \in viva_triggered \ viva_in_progress

\* the flagged count and the weighted score of a replay of the log of s
ReplayedFlags(s) ==
    Cardinality({i \in 1..Len(exam_events[s]) : Scored(exam_events[s][i]).is_flagged})

RECURSIVE ReplayedScore(_)
ReplayedScore(log) ==
    IF log = <<>> THEN 0
    ELSE Scored(Head(log)).confidence_score * Scored(Head(log)).priority
         + ReplayedScore(Tail(log))

\* C29: the tracker counts no event that is missing from the event log: a
\* replay of the session's log through the classifier gives a flagged count
\* and a weighted score at least as large as the tracker's.
C29_LogCoversTracker ==
    \A s \in DOMAIN session_flags :
        /\ session_flags[s] <= ReplayedFlags(s)
        /\ session_scores[s] <= ReplayedScore(exam_events[s])

\* the timeline new is the timeline old with wpm_tracking rows added
OnlyWpmAdded(old, new) ==
    /\ Len(new) > Len(old)
    /\ \A i \in 1..Len(old) : new[i] = old[i]
    /\ \A i \in (Len(old) + 1)..Len(new) : new[i].event_type = "wpm_tracking"

DescriptionsOf(list, t) == Len(SelectSeq(list, LAMBDA p : p.pattern = t))

\* C30: when a request is answered for a history to which only wpm_tracking
\* events were added since the previous answer, the pattern list reports at
\* least as many patterns of each other type as it did before.
C30_WpmKeepsOtherPatterns ==
    [][(/\ analytics.status = "returned"
        /\ analytics'.status = "returned"
        /\ OnlyWpmAdded(analytics.response.timeline_events,
                        analytics'.response.timeline_events))
       => \A t \in {"frequent_paste_operations", "tab_switch_quick_typing",
                     "frequent_face_violations"} :
             DescriptionsOf(analytics'.pattern_descriptions, t)
                 >= DescriptionsOf(analytics.pattern_descriptions, t)]_vars
====
